---- MODULE Spec2Model ----
(***************************************************************************)
(* Motor: the fixed-step simulation of a three-phase induction motor of    *)
(* digitaltwin_powertrain.py.                                              *)
(*                                                                         *)
(* Numbers.  The program computes with floating-point numbers.  Here a     *)
(* real x is the integer x * Scale, rounded down (fixed point): a product  *)
(* is Mul, a quotient is Quo, a square root is Sqrt, and every one of them *)
(* rounds, as the program's arithmetic does.  Times, angles, fluxes,       *)
(* currents, torques and temperatures are all numbers of this kind.        *)
(***************************************************************************)
EXTENDS Integers, Sequences, FiniteSets

\* Resolution of the fixed-point numbers: x stands for x / Scale.
Scale == 200

\* Steps in one second: the step is 1/StepsPerSecond (1.e-5 in the program).
StepsPerSecond == 80

\* Plotting samples in a run (tmax / 2000 in the program).
PlotPoints == 8

\* simulate() calls made on one Motor.
MaxRuns == 2

---------------------------------------------------------------------------
\* Fixed-point arithmetic

\* The number num/den.
Fix(num, den) == (num * Scale) \div den

Mul(a, b) == (a * b) \div Scale

Quo(a, b) == (a * Scale) \div b

RECURSIVE ISqrt(_, _, _)
\* The largest r in lo..hi with r*r <= n (lo*lo <= n < (hi+1)*(hi+1)).
ISqrt(n, lo, hi) ==
    IF lo >= hi THEN lo
    ELSE LET mid == (lo + hi + 1) \div 2
         IN  IF mid * mid <= n THEN ISqrt(n, mid, hi) ELSE ISqrt(n, lo, mid - 1)

\* np.sqrt of a number that is not negative.
Sqrt(x) == ISqrt(x * Scale, 0, 46340)

\* np.pi
Pi == Fix(314159, 100000)

\* np.cos on 0 <= y <= pi/2 (Bhaskara's quotient).
CosQuadrant(y) == ((Pi * Pi - 4 * y * y) * Scale) \div (Pi * Pi + y * y)

\* np.cos
Cos(x) ==
    LET r == x % (2 * Pi)
        f == IF r > Pi THEN 2 * Pi - r ELSE r
    IN  IF 2 * f <= Pi THEN CosQuadrant(f) ELSE -CosQuadrant(Pi - f)

---------------------------------------------------------------------------
\* Motor.__init__: constants and simulation parameters

pi23 == (2 * Pi) \div 3

rq23 == Sqrt(Fix(2, 3))

rq3 == Sqrt(Fix(3, 1))

\* Number of pole pairs.
p == Fix(2, 1)

\* Time step (s).
h == Fix(1, StepsPerSecond)

\* Maximum simulation time (s), as the constructor sets it.
tmaxInit == Fix(1, 1)

\* Plotting time step (s): tmax / 2000, and never below the time step.
hp ==
    LET q == Quo(tmaxInit, Fix(PlotPoints, 1))
    IN  IF q < h THEN h ELSE q

\* Motor.reset_initial_conditions: the values it assigns that no method changes

\* Synchronous speed (rad/s).
ws == Fix(377, 1)

\* Peak stator voltage (V).
Vsm == Mul(Fix(220, 1), Sqrt(Fix(2, 1)))

\* Initial temperature.
tempInit == Fix(25, 1)

\* Mass of the stator (kg).
m == Quo(Fix(65, 1), Fix(3, 2))

\* Specific heat capacity.
C == Fix(385, 1000)

\* The constructor's arguments <<rs, rr, ls, lr, mrs, jm, kf>> the model constructs
\* a Motor with (each a pair <<numerator, denominator>>).
MotorArgs ==
    { << <<2, 1>>, <<1, 1>>, <<1, 1>>, <<1, 1>>, <<1, 2>>, <<4, 1>>, <<1, 10>> >>,
      << <<0, 1>>, <<1, 1>>, <<1, 1>>, <<1, 1>>, <<1, 2>>, <<4, 1>>, <<1, 10>> >>,
      << <<1, 1>>, <<2, 1>>, <<2, 1>>, <<1, 1>>, <<1, 1>>, <<2, 1>>, <<1, 2>> >> }

\* Constructor arguments whose determinant ls * lr - mrs * mrs is zero.
SingularArgs ==
    { << <<2, 1>>, <<1, 1>>, <<1, 1>>, <<1, 1>>, <<1, 1>>, <<4, 1>>, <<1, 10>> >>,
      << <<1, 1>>, <<2, 1>>, <<4, 1>>, <<1, 1>>, <<2, 1>>, <<2, 1>>, <<1, 2>> >> }

VARIABLES
    \* machine parameters
    rs, rr, ls, lr, msr, jm, kf,
    \* simulation horizon
    tmax,
    \* state
    cl, wm, t, tp, ce, Vs, tete, fsd, fsq, frd, frq, isd, isq, ird, irq, iso, temp,
    \* storage for output variables
    tempo, corrented, correnteq, corrente1, corrente2, corrente3,
    tensao1, tensao2, tensao3, tensaosd, tensaosq,
    fluxord, fluxorq, fluxos1, fluxos2, fluxos3, fluxosd, fluxosq, fluxos,
    conjugado, velocidade, frequencia, conjcarga, correnteo, torque_mecanico,
    temperatura,
    \* where the caller is: "idle", "running" (inside simulate()) or "done";
    \* "ZeroDivisionError" when the constructor raised it and left no Motor
    pc,
    \* simulate() calls made so far, and the length of tempo when the last one began
    runs, runStart,
    \* the arguments and the returned tuple of a method the caller calls directly
    args, ret

params == <<rs, rr, ls, lr, msr, jm, kf>>

state == <<cl, wm, t, tp, ce, Vs, tete, fsd, fsq, frd, frq, isd, isq, ird, irq, iso, temp>>

storage ==
    <<tempo, corrented, correnteq, corrente1, corrente2, corrente3,
      tensao1, tensao2, tensao3, tensaosd, tensaosq,
      fluxord, fluxorq, fluxos1, fluxos2, fluxos3, fluxosd, fluxosq, fluxos,
      conjugado, velocidade, frequencia, conjcarga, correnteo, torque_mecanico,
      temperatura>>

calls == <<args, ret>>

vars == <<params, tmax, state, storage, pc, runs, runStart, calls>>

\* Stator leakage inductance.
lso == Mul(Fix(1, 10), ls)

\* The division by the determinant finds it zero and returns a value (as a
\* division of numpy scalars does) instead of raising.
idt_raises_never(Ls, Lr, Msr) == FALSE

\* The division 1 / (ls * lr - msr * msr) of the constructor raises
\* ZeroDivisionError: the determinant is zero.
idt_raises(Ls, Lr, Msr) == Mul(Ls, Lr) - Mul(Msr, Msr) = 0

\* Inverse of the determinant.
idt == Quo(Fix(1, 1), Mul(ls, lr) - Mul(msr, msr))

\* Constant for the torque calculation.
amsr == Mul(Mul(p, idt), msr)

---------------------------------------------------------------------------
\* The methods of Motor, each on the values it reads

\* The angle advanced and never wrapped.
source_voltage_tete_nowrap(a) == a + Mul(h, ws)

\* source_voltage: the electrical angle it leaves in tete.
source_voltage_tete(a) ==
    LET b == a + Mul(h, ws)
    IN  IF b >= 2 * Pi THEN b - 2 * Pi ELSE b

\* source_voltage: <<vs1, vs2, vs3>> at the angle a.
source_voltage(V, a) ==
    << Mul(V, Cos(a)), Mul(V, Cos(a - pi23)), Mul(V, Cos(a + pi23)) >>

\* The load applied only after the half of tmax (> for >=).
load_torque_gt(tt, tm, c) == IF 2 * tt > tm THEN Fix(40, 1) ELSE c

\* load_torque: the load torque it leaves in cl (halving is exact in the
\* program's arithmetic, so t >= tmax / 2 is 2t >= tmax).
load_torque(tt, tm, c) == IF 2 * tt >= tm THEN Fix(40, 1) ELSE c

\* The quadrature component taken from the sum of phases 2 and 3.
direct_voltage_and_quadrature_sum(vs1, vs2, vs3) ==
    << Mul(rq23, vs1 - vs2 \div 2 - vs3 \div 2),
       Mul(rq23, Mul(vs2, rq3) \div 2 + Mul(vs3, rq3) \div 2),
       Quo(vs1 + vs2 + vs3, rq3) >>

\* <<vsd, vsq, vso>>
direct_voltage_and_quadrature(vs1, vs2, vs3) ==
    << Mul(rq23, vs1 - vs2 \div 2 - vs3 \div 2),
       Mul(rq23, Mul(vs2, rq3) \div 2 - Mul(vs3, rq3) \div 2),
       Quo(vs1 + vs2 + vs3, rq3) >>

\* <<dervfsd, dervfsq, dervfrd, dervfrq, deriso>>
calculate_derivatives(vsd, vsq, vso) ==
    << vsd - Mul(rs, isd),
       vsq - Mul(rs, isq),
       (-Mul(rr, ird)) - Mul(frq, wm),
       (-Mul(rr, irq)) + Mul(frd, wm),
       Quo(vso - Mul(rs, iso), lso) >>

\* update_fluxes_and_currents: <<fsd, fsq, frd, frq, iso>> after it.
update_fluxes_and_currents(d) ==
    << fsd + Mul(d[1], h), fsq + Mul(d[2], h), frd + Mul(d[3], h),
       frq + Mul(d[4], h), iso + Mul(d[5], h) >>

\* calculate_electromagnetic_torque: <<ce, isd, isq, ird, irq>> of the fluxes.
calculate_electromagnetic_torque(Fsd, Fsq, Frd, Frq) ==
    << Mul(amsr, Mul(Fsq, Frd) - Mul(Fsd, Frq)),
       Mul(idt, Mul(lr, Fsd) - Mul(msr, Frd)),
       Mul(idt, Mul(lr, Fsq) - Mul(msr, Frq)),
       Mul(idt, (-Mul(msr, Fsd)) + Mul(ls, Frd)),
       Mul(idt, (-Mul(msr, Fsq)) + Mul(ls, Frq)) >>

\* The dq0-to-phase formulas of currents_and_fluxes_phases.
PhasesOf(xd, xq, xo) ==
    << Mul(rq23, xd) + Quo(xo, rq3),
       Mul(rq23, (-xd) \div 2 + Mul(rq3, xq) \div 2) + Quo(xo, rq3),
       Mul(rq23, (-xd) \div 2 - Mul(rq3, xq) \div 2) + Quo(xo, rq3) >>

\* <<is1, is2, is3, fs1, fs2, fs3>>
currents_and_fluxes_phases(Isd, Isq, Iso, Fsd, Fsq, fso) ==
    PhasesOf(Isd, Isq, Iso) \o PhasesOf(Fsd, Fsq, fso)

\* The friction torque taken as kf instead of wm * kf.
mechanical_speed_kf(Ce, Cl, Wm) == Wm + Quo(Mul(Ce - Cl - kf, h), jm)

mechanical_speed(Ce, Cl, Wm) == Wm + Quo(Mul(Ce - Cl - Mul(Wm, kf), h), jm)

\* The load torque added to the electromagnetic torque.
mechanical_torque_sum(Ce, Cl) == Ce + Cl

mechanical_torque(Ce, Cl) == Ce - Cl

\* calcular_temperatura: the increment dT of the temperature.
calcular_temperatura_dT(Isd, Isq, Iso) ==
    LET i == currents_and_fluxes_phases(Isd, Isq, Iso, 0, 0, Fix(1, 1))
        corrente_eficaz == Sqrt(Mul(i[1], i[1]) + Mul(i[2], i[2]) + Mul(i[3], i[3]))
        potencia_perdida == Mul(rs, Mul(corrente_eficaz, corrente_eficaz))
    IN  Quo(Mul(potencia_perdida, h), Mul(m, C))

\* The increment applied twice: once by self.temp += dT and once more when
\* simulate() stores the value returned.
calcular_temperatura_twice(T, Isd, Isq, Iso) == T + 2 * calcular_temperatura_dT(Isd, Isq, Iso)

\* The increment subtracted.
calcular_temperatura_minus(T, Isd, Isq, Iso) == T - calcular_temperatura_dT(Isd, Isq, Iso)

\* calcular_temperatura: the temperature it leaves in temp and returns.
calcular_temperatura(T, Isd, Isq, Iso) == T + calcular_temperatura_dT(Isd, Isq, Iso)

\* A sample at every step (the test left out).
SampleDue_always(tt, tpp) == TRUE

\* The test of simulate() that a sample is due.
SampleDue(tt, tpp) == tt >= tpp

\* The plotting time advanced by the time step instead of the plotting step.
NextPlotTime_h(tpp) == tpp + h

\* The next plotting time, once a sample is recorded.
NextPlotTime(tpp) == tpp + hp

\* The new entry put in front of the list (list.insert(0, x)).
append_front(list, x) == <<x>> \o list

\* The new entry written over the last one (list[-1] = x) once the list is
\* not empty.
append_overwrite(list, x) ==
    IF list = << >> THEN <<x>> ELSE [list EXCEPT ![Len(list)] = x]

\* list.append(x)
append(list, x) == Append(list, x)

---------------------------------------------------------------------------
\* Motor(...): the state the constructor leaves.  When it raises, no Motor is
\* left: no action is enabled and the attributes it had not assigned yet keep
\* the values below unread.

Init ==
    /\ \E a \in MotorArgs \cup SingularArgs :
          /\ rs = Fix(a[1][1], a[1][2])
          /\ rr = Fix(a[2][1], a[2][2])
          /\ ls = Fix(a[3][1], a[3][2])
          /\ lr = Fix(a[4][1], a[4][2])
          /\ msr = Fix(a[5][1], a[5][2])
          /\ jm = Fix(a[6][1], a[6][2])
          /\ kf = Fix(a[7][1], a[7][2])
    /\ tmax = tmaxInit
    /\ cl = 0 /\ wm = 0 /\ t = 0 /\ tp = 0 /\ ce = 0
    /\ Vs = Vsm /\ tete = 0
    /\ fsd = 0 /\ fsq = 0 /\ frd = 0 /\ frq = 0
    /\ isd = 0 /\ isq = 0 /\ ird = 0 /\ irq = 0 /\ iso = 0
    /\ temp = tempInit
    /\ tempo = << >> /\ corrented = << >> /\ correnteq = << >>
    /\ corrente1 = << >> /\ corrente2 = << >> /\ corrente3 = << >>
    /\ tensao1 = << >> /\ tensao2 = << >> /\ tensao3 = << >>
    /\ tensaosd = << >> /\ tensaosq = << >>
    /\ fluxord = << >> /\ fluxorq = << >>
    /\ fluxos1 = << >> /\ fluxos2 = << >> /\ fluxos3 = << >>
    /\ fluxosd = << >> /\ fluxosq = << >> /\ fluxos = << >>
    /\ conjugado = << >> /\ velocidade = << >> /\ frequencia = << >>
    /\ conjcarga = << >> /\ correnteo = << >> /\ torque_mecanico = << >>
    /\ temperatura = << >>
    /\ pc = IF idt_raises(ls, lr, msr) THEN "ZeroDivisionError" ELSE "idle"
    /\ runs = 0 /\ runStart = 0
    /\ args = << >> /\ ret = << >>

\* outputs(...): one entry appended to each list it appends to.
outputs(is1, is2, is3, fs1, fs2, fs3, fso, cm, vso, vsd, vsq) ==
    /\ tempo' = append(tempo, t')
    /\ corrented' = append(corrented, isd')
    /\ correnteq' = append(correnteq, isq')
    /\ corrente1' = append(corrente1, is1)
    /\ corrente2' = append(corrente2, is2)
    /\ corrente3' = append(corrente3, is3)
    /\ tensao1' = append(tensao1, vso)
    /\ tensao2' = append(tensao2, vsd)
    /\ tensao3' = append(tensao3, vsq)
    /\ fluxord' = append(fluxord, frd')
    /\ fluxorq' = append(fluxorq, frq')
    /\ fluxosd' = append(fluxosd, fsd')
    /\ fluxosq' = append(fluxosq, fsq')
    /\ fluxos1' = append(fluxos1, fs1)
    /\ fluxos2' = append(fluxos2, fs2)
    /\ fluxos3' = append(fluxos3, fs3)
    /\ fluxos' = append(fluxos, fso)
    /\ conjugado' = append(conjugado, ce')
    /\ velocidade' = append(velocidade, wm')
    /\ correnteo' = append(correnteo, iso')
    /\ frequencia' = append(frequencia, ws)
    /\ torque_mecanico' = append(torque_mecanico, cm)
    /\ conjcarga' = append(conjcarga, cl')
    /\ temperatura' = append(temperatura, temp')
    /\ UNCHANGED <<tensaosd, tensaosq>>

\* The loop runs through t = tmax as well.
LoopGuard_le == t <= tmax

\* The guard of the loop of simulate().
LoopGuard == t < tmax

\* simulate() is called.
SimulateCall ==
    /\ pc \notin {"running", "ZeroDivisionError"}
    /\ runs < MaxRuns
    /\ pc' = "running"
    /\ runs' = runs + 1
    /\ runStart' = Len(tempo)
    /\ UNCHANGED <<params, tmax, state, storage, calls>>

\* One pass of the loop with calculate_electromagnetic_torque called before
\* update_fluxes_and_currents: the currents and the torque are those of the
\* fluxes the step began with.
SimulateStep_stale ==
    /\ pc = "running"
    /\ LoopGuard
    /\ t' = t + h
    /\ tete' = source_voltage_tete(tete)
    /\ cl' = load_torque(t', tmax, cl)
    /\ \E vs \in {source_voltage(Vs, tete')} :
       \E v \in {direct_voltage_and_quadrature(vs[1], vs[2], vs[3])} :
       \E d \in {calculate_derivatives(v[1], v[2], v[3])} :
       \E f \in {update_fluxes_and_currents(d)} :
          /\ fsd' = f[1] /\ fsq' = f[2] /\ frd' = f[3] /\ frq' = f[4] /\ iso' = f[5]
          /\ \E fso \in {Mul(lso, iso')} :
             \E e \in {calculate_electromagnetic_torque(fsd, fsq, frd, frq)} :
                /\ ce' = e[1] /\ isd' = e[2] /\ isq' = e[3] /\ ird' = e[4] /\ irq' = e[5]
                /\ \E ph \in {currents_and_fluxes_phases(isd', isq', iso', fsd', fsq', fso)} :
                      /\ wm' = mechanical_speed(ce', cl', wm)
                      /\ \E cm \in {mechanical_torque(ce', cl')} :
                            /\ temp' = calcular_temperatura(temp, isd', isq', iso')
                            /\ IF SampleDue(t', tp)
                               THEN /\ tp' = NextPlotTime(tp)
                                    /\ outputs(ph[1], ph[2], ph[3], ph[4], ph[5], ph[6],
                                               fso, cm, v[3], v[1], v[2])
                               ELSE UNCHANGED <<tp, storage>>
    /\ UNCHANGED <<params, tmax, Vs, pc, runs, runStart, calls>>

\* One pass of the loop of simulate().  The locals of the loop are bound in the
\* order the loop computes them; a primed variable is the attribute's new value.
SimulateStep ==
    /\ pc = "running"
    /\ LoopGuard
    /\ t' = t + h
    /\ tete' = source_voltage_tete(tete)
    /\ cl' = load_torque(t', tmax, cl)
    /\ \E vs \in {source_voltage(Vs, tete')} :
       \E v \in {direct_voltage_and_quadrature(vs[1], vs[2], vs[3])} :
       \E d \in {calculate_derivatives(v[1], v[2], v[3])} :
       \E f \in {update_fluxes_and_currents(d)} :
          /\ fsd' = f[1] /\ fsq' = f[2] /\ frd' = f[3] /\ frq' = f[4] /\ iso' = f[5]
          /\ \E fso \in {Mul(lso, iso')} :
             \E e \in {calculate_electromagnetic_torque(fsd', fsq', frd', frq')} :
                /\ ce' = e[1] /\ isd' = e[2] /\ isq' = e[3] /\ ird' = e[4] /\ irq' = e[5]
                /\ \E ph \in {currents_and_fluxes_phases(isd', isq', iso', fsd', fsq', fso)} :
                      /\ wm' = mechanical_speed(ce', cl', wm)
                      /\ \E cm \in {mechanical_torque(ce', cl')} :
                            /\ temp' = calcular_temperatura(temp, isd', isq', iso')
                            /\ IF SampleDue(t', tp)
                               THEN /\ tp' = NextPlotTime(tp)
                                    /\ outputs(ph[1], ph[2], ph[3], ph[4], ph[5], ph[6],
                                               fso, cm, v[3], v[1], v[2])
                               ELSE UNCHANGED <<tp, storage>>
    /\ UNCHANGED <<params, tmax, Vs, pc, runs, runStart, calls>>

\* The loop of simulate() ends and simulate() returns.
SimulateReturn ==
    /\ pc = "running"
    /\ ~LoopGuard
    /\ pc' = "done"
    /\ UNCHANGED <<params, tmax, state, storage, runs, runStart, calls>>

\* The reset that also empties the output lists, as the constructor creates them.
reset_initial_conditions_clear ==
    /\ pc \notin {"running", "ZeroDivisionError"}
    /\ cl' = 0 /\ wm' = 0 /\ t' = 0 /\ tp' = 0 /\ ce' = 0
    /\ Vs' = Vsm /\ tete' = 0
    /\ fsd' = 0 /\ fsq' = 0 /\ frd' = 0 /\ frq' = 0
    /\ isd' = 0 /\ isq' = 0 /\ ird' = 0 /\ irq' = 0 /\ iso' = 0
    /\ temp' = tempInit
    /\ pc' = "idle"
    /\ tempo' = << >> /\ corrented' = << >> /\ correnteq' = << >>
    /\ corrente1' = << >> /\ corrente2' = << >> /\ corrente3' = << >>
    /\ tensao1' = << >> /\ tensao2' = << >> /\ tensao3' = << >>
    /\ tensaosd' = << >> /\ tensaosq' = << >> /\ fluxord' = << >>
    /\ fluxorq' = << >> /\ fluxos1' = << >> /\ fluxos2' = << >>
    /\ fluxos3' = << >> /\ fluxosd' = << >> /\ fluxosq' = << >>
    /\ fluxos' = << >> /\ conjugado' = << >> /\ velocidade' = << >>
    /\ frequencia' = << >> /\ conjcarga' = << >> /\ correnteo' = << >>
    /\ torque_mecanico' = << >> /\ temperatura' = << >>
    /\ UNCHANGED <<params, tmax, runs, runStart, calls>>

\* reset_initial_conditions(), called between two runs.
reset_initial_conditions ==
    /\ pc \notin {"running", "ZeroDivisionError"}
    /\ cl' = 0 /\ wm' = 0 /\ t' = 0 /\ tp' = 0 /\ ce' = 0
    /\ Vs' = Vsm /\ tete' = 0
    /\ fsd' = 0 /\ fsq' = 0 /\ frd' = 0 /\ frq' = 0
    /\ isd' = 0 /\ isq' = 0 /\ ird' = 0 /\ irq' = 0 /\ iso' = 0
    /\ temp' = tempInit
    /\ pc' = "idle"
    /\ UNCHANGED <<params, tmax, storage, runs, runStart, calls>>

\* The caller assigns the source amplitude (motor.Vs = 0) before a run.
AssignVs ==
    /\ pc = "idle"
    /\ Vs' = 0
    /\ Vs # 0
    /\ UNCHANGED <<params, tmax, cl, wm, t, tp, ce, tete, fsd, fsq, frd, frq,
                   isd, isq, ird, irq, iso, temp, storage, pc, runs, runStart, calls>>

Next ==
    \/ SimulateCall
    \/ SimulateStep
    \/ SimulateReturn
    \/ reset_initial_conditions
    \/ AssignVs

Spec == Init /\ [][Next]_vars

\* The run of a program: simulate() steps to completion whenever it is called.
FairSpec == Spec /\ WF_vars(SimulateStep) /\ WF_vars(SimulateReturn)

---------------------------------------------------------------------------
\* The methods called one by one, as the examples of the docstrings do
\* (motor.t = 5; motor.tmax = 10; motor.load_torque()).

\* Largest whole number of seconds a caller assigns to t or tmax.
MaxAssigned == 10

AssignedTimes == { Fix(k, 1) : k \in 0..MaxAssigned }

\* motor.t = v
AssignT ==
    /\ pc \notin {"running", "ZeroDivisionError"}
    /\ \E v \in AssignedTimes : t' = v
    /\ pc' = "idle"
    /\ UNCHANGED <<params, tmax, cl, wm, tp, ce, Vs, tete, fsd, fsq, frd, frq,
                   isd, isq, ird, irq, iso, temp, storage, runs, runStart, calls>>

\* motor.tmax = v
AssignTmax ==
    /\ pc \notin {"running", "ZeroDivisionError"}
    /\ \E v \in AssignedTimes \ {0} : tmax' = v
    /\ pc' = "idle"
    /\ UNCHANGED <<params, state, storage, runs, runStart, calls>>

\* motor.load_torque(); pc = "load_torque" once it has returned.
CallLoadTorque ==
    /\ pc \notin {"running", "ZeroDivisionError"}
    /\ cl' = load_torque(t, tmax, cl)
    /\ pc' = "load_torque"
    /\ UNCHANGED <<params, tmax, wm, t, tp, ce, Vs, tete, fsd, fsq, frd, frq,
                   isd, isq, ird, irq, iso, temp, storage, runs, runStart, calls>>

CallNext ==
    \/ AssignT
    \/ AssignTmax
    \/ CallLoadTorque
    \/ reset_initial_conditions

CallSpec == Init /\ [][CallNext]_vars

---------------------------------------------------------------------------
\* The two transforms called one after the other on a triple of phase values
\* (vsd, vsq, vso = motor.direct_voltage_and_quadrature(a, b, c); then
\* motor.isd, motor.isq, motor.iso = vsd, vsq, vso and
\* motor.currents_and_fluxes_phases(fso)).

\* Largest phase value (V or A) of a triple passed in.
MaxPhase == 311

\* The phase values of the triples: zero, the smallest value, and values of
\* both signs up to MaxPhase.
PhaseValues == { 0, 1, -Fix(1, 2), Fix(3, 1), -Fix(40, 1), Fix(MaxPhase, 1) }

\* motor.direct_voltage_and_quadrature(a, b, c), on a motor just constructed
CallDirectVoltageAndQuadrature ==
    /\ pc = "idle"
    /\ \E a \in PhaseValues, b \in PhaseValues, c \in PhaseValues :
          /\ args' = <<a, b, c>>
          /\ ret' = direct_voltage_and_quadrature(a, b, c)
    /\ pc' = "direct_voltage_and_quadrature"
    /\ UNCHANGED <<params, tmax, state, storage, runs, runStart>>

\* motor.isd, motor.isq, motor.iso = the tuple returned, then
\* motor.currents_and_fluxes_phases(fso) with fso = lso * iso; ret is
\* <<is1, is2, is3>>.
CallCurrentsAndFluxesPhases ==
    /\ pc = "direct_voltage_and_quadrature"
    /\ isd' = ret[1] /\ isq' = ret[2] /\ iso' = ret[3]
    /\ \E ph \in {currents_and_fluxes_phases(isd', isq', iso', fsd, fsq, Mul(lso, iso'))} :
          ret' = <<ph[1], ph[2], ph[3]>>
    /\ pc' = "currents_and_fluxes_phases"
    /\ UNCHANGED <<params, tmax, cl, wm, t, tp, ce, Vs, tete, fsd, fsq, frd, frq,
                   ird, irq, temp, storage, runs, runStart, args>>

TransformNext ==
    \/ CallDirectVoltageAndQuadrature
    \/ CallCurrentsAndFluxesPhases

TransformSpec == Init /\ [][TransformNext]_vars

---------------------------------------------------------------------------
\* Properties

\* The load torque the spec gives for the time tt: 0 before tmax/2, 40 from it on.
LoadAt(tt) == IF 2 * tt >= tmax THEN Fix(40, 1) ELSE 0

\* A step of simulate() has just been taken (the clock moved, and not back to 0).
Stepped == t' # t /\ t' # 0

\* The indices of the samples the current run has recorded.
RunSamples == (runStart + 1)..Len(tempo)

\* C1: in a run of simulate() the recorded times are strictly increasing: every
\* sample the run appends has a time greater than the sample appended before it.
C1_TempoStrictlyIncreasing ==
    \A i \in RunSamples : i + 1 \in RunSamples => tempo[i] < tempo[i + 1]

C1_Witness == pc = "done" /\ runs = 1 /\ runStart = 0 /\ Len(tempo) >= 3

\* C2: two consecutive sample times of a run differ by hp to within one step h,
\* the first interval (after the sample of the first step) included.
C2_SpacingWithinStep ==
    \A i \in RunSamples :
        i + 1 \in RunSamples =>
            /\ tempo[i + 1] - tempo[i] - hp <= h
            /\ hp - (tempo[i + 1] - tempo[i]) <= h

C2_Witness ==
    /\ runs = 1 /\ Len(tempo) >= 4
    /\ tempo[1] = h
    /\ tempo[2] - tempo[1] < hp
    /\ \E i \in 2..(Len(tempo) - 1) : tempo[i + 1] - tempo[i] > hp

\* ceil(tmax / hp)
CeilSamples == (tmax + hp - 1) \div hp

\* C3: when the first simulate() of a Motor has completed, the number of recorded
\* samples is ceil(tmax / hp), give or take one.
C3_SampleCount ==
    (pc = "done" /\ runs = 1) =>
        /\ Len(tempo) >= CeilSamples - 1
        /\ Len(tempo) <= CeilSamples + 1

C3_Witness == pc = "done" /\ runs = 1 /\ Len(tempo) = CeilSamples + 1 /\ hp > h

\* C4: simulate() terminates: the clock moves only in a step taken while t < tmax,
\* by exactly h; on exit tmax <= t < tmax + h; once t >= tmax nothing but a reset
\* changes the state or the recorded samples; and a running simulate() is done in
\* the end.
C4_Terminates ==
    /\ [][Stepped => (t < tmax /\ t' = t + h)]_vars
    /\ [](pc = "done" => (tmax <= t /\ t < tmax + h))
    /\ [][(t >= tmax /\ t' # 0) =>
            UNCHANGED <<cl, wm, t, tp, ce, tete, fsd, fsq, frd, frq,
                        isd, isq, ird, irq, iso, temp, storage>>]_vars
    /\ (pc = "running") ~> (pc = "done")

C4_Witness == pc = "done" /\ t >= tmax /\ Len(tempo) > 0

C6_LoadTorquePure == pc = "load_torque" => cl = LoadAt(t)

\* C7: as the docstring of load_torque says, after load_torque() at a time
\* t >= tmax/2 the load torque cl is 10.
C7_DocstringTen == (pc = "load_torque" /\ 2 * t >= tmax) => cl = Fix(10, 1)

\* C8: with source amplitude Vs = 0 and load torque 0, a Motor that starts from the
\* initial conditions stays there: fluxes, currents, torque and speed stay 0 and
\* the temperature stays 25.
C8_ZeroInputRest ==
    (Vs = 0 /\ cl = 0) =>
        /\ fsd = 0 /\ fsq = 0 /\ frd = 0 /\ frq = 0
        /\ iso = 0 /\ isd = 0 /\ isq = 0 /\ ird = 0 /\ irq = 0
        /\ ce = 0 /\ wm = 0
        /\ temp = tempInit

C8_Witness == Vs = 0 /\ cl = 0 /\ pc = "running" /\ t >= 10 * h /\ tete # 0

\* C9: with rs >= 0 the temperature never decreases in a step of simulate(): the
\* temperatura a run records is non-decreasing and never below the initial 25.
C9_ThermalMonotone ==
    /\ [][Stepped => temp' >= temp]_vars
    /\ [](temp >= tempInit)
    /\ [](\A i \in RunSamples :
            /\ temperatura[i] >= tempInit
            /\ i + 1 \in RunSamples => temperatura[i] <= temperatura[i + 1])

C9_Witness ==
    /\ rs > 0 /\ pc = "done"
    /\ \E i \in RunSamples : i + 1 \in RunSamples /\ temperatura[i] < temperatura[i + 1]
    /\ \E i \in RunSamples : i + 1 \in RunSamples /\ temperatura[i] = temperatura[i + 1]

\* C10: every step advances the angle tete by ws*h before the phase voltages are
\* evaluated and wraps it: 0 <= tete < 2 pi after every step, tete after n steps
\* is n*ws*h modulo 2 pi, and the voltages a step records are those of the
\* advanced angle.
C10_AngleWrapped ==
    /\ 0 <= tete /\ tete < 2 * Pi
    /\ tete = (Mul(h, ws) * (t \div h)) % (2 * Pi)
    /\ (pc = "running" /\ Len(tempo) > runStart /\ tempo[Len(tempo)] = t) =>
            <<tensao2[Len(tempo)], tensao3[Len(tempo)], tensao1[Len(tempo)]>>
                = LET vs == source_voltage(Vs, tete)
                  IN  direct_voltage_and_quadrature(vs[1], vs[2], vs[3])

C10_Witness ==
    /\ pc = "running" /\ Len(tempo) > runStart /\ tempo[Len(tempo)] = t
    /\ Mul(h, ws) * (t \div h) >= 2 * Pi
    /\ tete # 0 /\ Vs # 0

---------------------------------------------------------------------------
Abs(x) == IF x < 0 THEN -x ELSE x

\* Largest difference between a phase value passed in and the one returned.
RoundTripError ==
    LET e(i) == Abs(ret[i] - args[i])
    IN  IF e(1) >= e(2) /\ e(1) >= e(3) THEN e(1)
        ELSE IF e(2) >= e(3) THEN e(2) ELSE e(3)

\* Sum of the magnitudes of the three phase values passed in.
Magnitude == Abs(args[1]) + Abs(args[2]) + Abs(args[3])

---------------------------------------------------------------------------
---------------------------------------------------------------------------
\* The lengths of the storage lists the constructor creates.
StorageLengths == { Len(storage[i]) : i \in 1..Len(storage) }

\* C13: every output storage list created by the constructor has the same
\* length as tempo, after any number of steps of simulate().
C13_SameLength == StorageLengths = { Len(tempo) }

---------------------------------------------------------------------------
\* The channels outputs() records.
Recorded ==
    <<tempo, corrented, correnteq, corrente1, corrente2, corrente3,
      tensao1, tensao2, tensao3,
      fluxord, fluxorq, fluxos1, fluxos2, fluxos3, fluxosd, fluxosq, fluxos,
      conjugado, velocidade, frequencia, conjcarga, correnteo, torque_mecanico,
      temperatura>>

\* C14: the trace is append-only.  No step of the program modifies or removes
\* an entry recorded earlier, and a step of simulate() either leaves every
\* list and tp unchanged (the advanced time is below tp) or appends exactly one
\* entry to each recorded channel and advances tp by hp.
C14_AppendOnly ==
    [][ /\ \A i \in 1..Len(storage) :
              /\ Len(storage'[i]) >= Len(storage[i])
              /\ SubSeq(storage'[i], 1, Len(storage[i])) = storage[i]
        /\ Stepped =>
              \/ /\ t' < tp
                 /\ UNCHANGED <<tp, storage>>
              \/ /\ t' >= tp
                 /\ tp' = tp + hp
                 /\ \A i \in 1..Len(Recorded) :
                       Len(Recorded'[i]) = Len(Recorded[i]) + 1
                 /\ UNCHANGED <<tensaosd, tensaosq>> ]_vars

\* Samples were recorded and the step just made recorded none.
C14_Witness ==
    /\ pc = "running"
    /\ Len(tempo) >= 2
    /\ t > tempo[Len(tempo)]
    /\ tp > t

---------------------------------------------------------------------------
\* C15: at the start of every step of simulate(), and so in every state of a
\* Motor, the stored currents and torque are the algebraic image of the stored
\* fluxes: isd = idt * (lr * fsd - msr * frd), isq = idt * (lr * fsq - msr * frq),
\* ird = idt * (-msr * fsd + ls * frd), irq = idt * (-msr * fsq + ls * frq) and
\* ce = amsr * (fsq * frd - fsd * frq).
C15_CurrentsImageOfFluxes ==
    pc # "ZeroDivisionError" =>
        /\ isd = Mul(idt, Mul(lr, fsd) - Mul(msr, frd))
        /\ isq = Mul(idt, Mul(lr, fsq) - Mul(msr, frq))
        /\ ird = Mul(idt, (-Mul(msr, fsd)) + Mul(ls, frd))
        /\ irq = Mul(idt, (-Mul(msr, fsq)) + Mul(ls, frq))
        /\ ce = Mul(amsr, Mul(fsq, frd) - Mul(fsd, frq))

\* A step is about to start with fluxes, currents and torque that are not zero.
C15_Witness ==
    /\ pc = "running" /\ LoopGuard /\ t > 0
    /\ fsd # 0 /\ fsq # 0 /\ frd # 0 /\ frq # 0
    /\ isd # 0 /\ isq # 0 /\ ird # 0 /\ irq # 0 /\ ce # 0

---------------------------------------------------------------------------
\* The last entry of a list.
Last(list) == list[Len(list)]

\* C16: the order of the operations within one step of simulate().  The speed
\* update wm += (ce - cl - wm * kf) * h / jm uses the torque ce of the fluxes
\* updated in that step and the load torque of the advanced time; the
\* rotor-flux derivatives use the speed from before the update; and the sample
\* the step records holds the speed after the update and cm = ce - cl.
C16_OrderWithinStep ==
    [][ Stepped =>
          /\ ce' = Mul(amsr, Mul(fsq', frd') - Mul(fsd', frq'))
          /\ cl' = (IF 2 * t' >= tmax THEN Fix(40, 1) ELSE cl)
          /\ wm' = wm + Quo(Mul(ce' - cl' - Mul(wm, kf), h), jm)
          /\ frd' = frd + Mul((-Mul(rr, ird)) - Mul(frq, wm), h)
          /\ frq' = frq + Mul((-Mul(rr, irq)) + Mul(frd, wm), h)
          /\ Len(tempo') > Len(tempo) =>
                /\ Last(velocidade') = wm'
                /\ Last(conjugado') = ce'
                /\ Last(conjcarga') = cl'
                /\ Last(torque_mecanico') = ce' - cl' ]_vars

\* The step just made recorded a sample under load, with the rotor turning:
\* the speed before the step differs from the speed after it.
C16_Witness ==
    /\ pc = "running"
    /\ Len(tempo) >= 2 /\ Last(tempo) = t
    /\ cl # 0 /\ ce # 0 /\ wm # 0
    /\ Last(velocidade) = wm
    /\ Last(torque_mecanico) = ce - cl
    /\ velocidade[Len(velocidade) - 1] # wm

---------------------------------------------------------------------------
\* i1^2 + i2^2 + i3^2 of the phase currents of the dq0 currents given.
SquaredPhaseCurrents(Isd, Isq, Iso) ==
    LET i == PhasesOf(Isd, Isq, Iso)
    IN  Mul(i[1], i[1]) + Mul(i[2], i[2]) + Mul(i[3], i[3])

\* C17: every step of simulate() increases the temperature exactly once, by
\* dT = rs * (is1^2 + is2^2 + is3^2) * h / (m * C) of the phase currents of the
\* state the step has just updated (the squared currents pass through a square
\* root and a square, which costs at most one unit of the last place of dT),
\* and by nothing more.
C17_TemperatureOnce ==
    [][ Stepped =>
          \E s \in {SquaredPhaseCurrents(isd', isq', iso')} :
          \E dT \in {Quo(Mul(Mul(rs, Mul(Sqrt(s), Sqrt(s))), h), Mul(m, C))} :
          \E dTclaim \in {Quo(Mul(Mul(rs, s), h), Mul(m, C))} :
             /\ temp' = temp + dT
             /\ dT <= dTclaim
             /\ dTclaim - dT <= 1 ]_vars

\* The step just made has recorded a temperature above the one recorded before
\* it, by an increment of more than one unit.
C17_Witness ==
    /\ pc = "running"
    /\ Len(temperatura) >= 2 /\ Last(tempo) = t
    /\ Last(temperatura) = temp
    /\ temp > tempInit + 2
    /\ SquaredPhaseCurrents(isd, isq, iso) > 0

---------------------------------------------------------------------------
\* C18: reset_initial_conditions() sets the clock (t, tp), the load torque, the
\* speed, the angle, the fluxes, the currents and the temperature back to their
\* initial values and leaves every output list unchanged; the samples of a
\* simulate() called after it follow the samples of the earlier run in the same
\* lists: the new run's first sample, taken at t = h, comes right after the
\* earlier run's last one, taken at a later time.
C18_ResetKeepsTrace ==
    /\ [][ pc' = "idle" =>
              /\ t' = 0 /\ tp' = 0 /\ cl' = 0 /\ wm' = 0 /\ ce' = 0 /\ tete' = 0
              /\ fsd' = 0 /\ fsq' = 0 /\ frd' = 0 /\ frq' = 0
              /\ isd' = 0 /\ isq' = 0 /\ ird' = 0 /\ irq' = 0 /\ iso' = 0
              /\ temp' = tempInit
              /\ UNCHANGED storage ]_vars
    /\ [](runs >= 2 => Len(tempo) >= runStart)
    /\ [](runStart > 0 /\ Len(tempo) > runStart =>
            /\ tempo[runStart + 1] = h
            /\ tempo[runStart] > tempo[runStart + 1]
            /\ Len(velocidade) = Len(tempo))

\* A second simulate(), called after a reset, has run to its end: its samples
\* follow those of the first run.
C18_Witness ==
    /\ pc = "done" /\ runs = 2
    /\ runStart > 0 /\ Len(tempo) = 2 * runStart
    /\ tempo[runStart + 1] < tempo[runStart]
    /\ Last(tempo) = tempo[runStart]

====
